---------------------------- MODULE Spec2Model ----------------------------
(***************************************************************************)
(* A model of src/app.py, the Streamlit movie recommender: artifact        *)
(* loading, the genre/year filter, the title selection, the top-5 lookup   *)
(* of generate_recommendations and the TMDb enrichment of                  *)
(* fetch_movie_details.                                                    *)
(*                                                                         *)
(* Conventions.  Python positions are 0-based; the model keeps every       *)
(* position 1-based (position p of the model is Python index p-1).         *)
(* Strings that the code takes apart (the raw genre cells) are sequences   *)
(* of one-character strings; strings the code only compares or prints      *)
(* (titles, messages) are TLA+ strings.  NaN/None/NaT is the value NaN.    *)
(* Similarity scores are integers (a score s stands for s/100).            *)
(***************************************************************************)
EXTENDS Integers, Sequences, FiniteSets, TLC

(***************************************************************************)
(* Bounds of the model.                                                    *)
(***************************************************************************)
\* longest catalog a page run loads
MaxMovies == 3
\* longest catalog handed to generate_recommendations on its own
MaxCatalog == 7

(***************************************************************************)
(* Program constants.                                                      *)
(***************************************************************************)
\* similarity_scores[1:6]: the slice starts after rank position 0 ...
SliceFrom == 1
\* ... and ends before rank position 6
SliceTo == 6
\* "top-5": the k of the lookup
TopK == 5

Min(a, b) == IF a <= b THEN a ELSE b
Max(a, b) == IF a >= b THEN a ELSE b

\* s[a:b] of Python for 0 <= a, 0 <= b
Slice(s, a, b) == SubSeq(s, a + 1, Min(b, Len(s)))

(***************************************************************************)
(* Strings as sequences of characters: str.replace, str.split, str.strip   *)
(* and the substring test `g in x`.                                        *)
(***************************************************************************)
\* cell.replace("|", ",")
ReplacePipe(cell) == [k \in 1..Len(cell) |-> IF cell[k] = "|" THEN "," ELSE cell[k]]

\* cell.split(","): the pieces between commas, empty pieces kept
RECURSIVE SplitFrom(_, _, _)
SplitFrom(cell, k, piece) ==
    IF k > Len(cell) THEN <<piece>>
    ELSE IF cell[k] = "," THEN <<piece>> \o SplitFrom(cell, k + 1, <<>>)
    ELSE SplitFrom(cell, k + 1, Append(piece, cell[k]))

SplitComma(cell) == SplitFrom(cell, 1, <<>>)

RECURSIVE LStrip(_)
LStrip(s) == IF s # <<>> /\ Head(s) = " " THEN LStrip(Tail(s)) ELSE s

RECURSIVE RStrip(_)
RStrip(s) == IF s # <<>> /\ s[Len(s)] = " " THEN RStrip(SubSeq(s, 1, Len(s) - 1)) ELSE s

\* g.strip()
Strip(s) == RStrip(LStrip(s))

\* the labels of one cell: {g.strip() for g in cell.replace("|", ",").split(",") if g.strip()}
LabelsOf(cell) ==
    LET pieces == SplitComma(ReplacePipe(cell))
    IN  {Strip(pieces[k]) : k \in 1..Len(pieces)} \ {<<>>}

\* `g in x` on Python strings: g occurs in x as a contiguous substring
InString(g, x) ==
    \E k \in 0..(Len(x) - Len(g)) : SubSeq(x, k + 1, k + Len(g)) = g


(***************************************************************************)
(* TMDb: what the two requests of fetch_movie_details can come back with.  *)
(* A key that is missing from a payload (or null) is Absent.               *)
(***************************************************************************)
Absent == "absent"

\* data.get("genres", ...): missing, a list of genre objects, or not a list at all
GenrePayloads ==
    { <<"missing">>,
      <<"list", <<>> >>,
      <<"list", << [name |-> "Drama"], [name |-> Absent], [name |-> "Crime"] >> >>,
      <<"null">> }

DetailsPayloads ==
    [ poster_path : {Absent, "/p.jpg"},
      imdb_id : {Absent, "tt1"},
      vote_average : {Absent, "7.5"},
      genres : GenrePayloads ]

\* requests.get(api_url): it raises (timeout), answers non-200, answers a body
\* that is no JSON, or answers a JSON object
DetailsResponses ==
    { [status |-> "timeout", data |-> <<>>],
      [status |-> "http_error", data |-> <<>>],
      [status |-> "bad_json", data |-> <<>>] }
    \cup { [status |-> "ok", data |-> d] : d \in DetailsPayloads }

VideoLists ==
    { <<"missing">>,
      <<"list", <<>> >>,
      <<"list", << [type |-> "Teaser", site |-> "YouTube", key |-> "k0"],
                   [type |-> "Trailer", site |-> "Vimeo", key |-> "k1"],
                   [type |-> "Trailer", site |-> "YouTube", key |-> Absent],
                   [type |-> "Trailer", site |-> "YouTube", key |-> "k2"],
                   [type |-> "Trailer", site |-> "YouTube", key |-> "k3"] >> >>,
      <<"list", << [type |-> "Clip", site |-> "YouTube", key |-> "k4"] >> >> }

VideosResponses ==
    { [status |-> "timeout", results |-> <<"missing">>],
      [status |-> "http_error", results |-> <<"missing">>],
      [status |-> "bad_json", results |-> <<"missing">>] }
    \cup { [status |-> "ok", results |-> r] : r \in VideoLists }

\* the f-strings of lines 131, 132 and 142: a prefix and the value put after it
PosterUrl(poster_path) == <<"https://image.tmdb.org/t/p/w500", poster_path>>
ImdbUrl(imdb_id) == <<"https://www.imdb.com/title/", imdb_id, "/">>
TrailerUrl(key) == <<"https://www.youtube.com/watch?v=", key>>
NoPoster == <<>>
NoLink == <<"#">>

\* [g.get("name", "") for g in data.get("genres", []) if g.get("name")], which
\* ", ".join turns into one string: kept as the sequence of joined names
RECURSIVE GenreNames(_)
GenreNames(gs) ==
    IF gs = <<>> THEN <<>>
    ELSE IF Head(gs).name # Absent THEN <<Head(gs).name>> \o GenreNames(Tail(gs))
    ELSE GenreNames(Tail(gs))

\* the loop of lines 140-143: the first YouTube trailer that has a key
RECURSIVE FirstTrailer(_)
FirstTrailer(vs) ==
    IF vs = <<>> THEN NoLink
    ELSE IF Head(vs).type = "Trailer" /\ Head(vs).site = "YouTube" /\ Head(vs).key # Absent
         THEN TrailerUrl(Head(vs).key)
    ELSE FirstTrailer(Tail(vs))

\* the except branch: "", "N/A", "#", "", "#"
FetchDefaults ==
    [poster_url |-> NoPoster, rating |-> "N/A", imdb_url |-> NoLink,
     genres |-> <<>>, trailer_url |-> NoLink]

\* Does the body of the try raise?  requests.get raising, raise_for_status,
\* resp.json(), iterating a genres value that is no list; then the second
\* requests.get raising and vids.json() (read only when vids.ok).
FetchRaises(details, videos) ==
    \/ details.status # "ok"
    \/ details.data.genres[1] = "null"
    \/ videos.status = "timeout"
    \/ videos.status = "bad_json"

\* lines 126-145, when nothing raises
FetchTryBody(details, videos) ==
    LET data == details.data
    IN  [poster_url |-> IF data.poster_path # Absent THEN PosterUrl(data.poster_path)
                        ELSE NoPoster,
         rating |-> IF data.vote_average # Absent THEN data.vote_average ELSE "N/A",
         imdb_url |-> IF data.imdb_id # Absent THEN ImdbUrl(data.imdb_id) ELSE NoLink,
         genres |-> IF data.genres[1] = "list" THEN GenreNames(data.genres[2]) ELSE <<>>,
         trailer_url |-> IF videos.status = "ok" /\ videos.results[1] = "list"
                         THEN FirstTrailer(videos.results[2])
                         ELSE NoLink]

\* fetch_movie_details: try ... except Exception: return the defaults
FetchMovieDetails(details, videos) ==
    IF FetchRaises(details, videos) THEN FetchDefaults ELSE FetchTryBody(details, videos)

(***************************************************************************)
(* generate_recommendations.                                               *)
(***************************************************************************)
\* list(enumerate(row)): pairs <<position, score>>
Enumerate(row) == [k \in 1..Len(row) |-> <<k, row[k]>>]

\* one step of a stable descending sort: x goes after every pair whose score
\* is not smaller, so pairs of equal score keep the order they came in
RECURSIVE InsertDesc(_, _)
InsertDesc(x, s) ==
    IF s = <<>> THEN <<x>>
    ELSE IF Head(s)[2] >= x[2] THEN <<Head(s)>> \o InsertDesc(x, Tail(s))
    ELSE <<x>> \o s

RECURSIVE SortFrom(_, _, _)
SortFrom(pairs, k, acc) ==
    IF k > Len(pairs) THEN acc ELSE SortFrom(pairs, k + 1, InsertDesc(pairs[k], acc))

RECURSIVE InsertAsc(_, _)
InsertAsc(x, s) ==
    IF s = <<>> THEN <<x>>
    ELSE IF Head(s)[2] <= x[2] THEN <<Head(s)>> \o InsertAsc(x, Tail(s))
    ELSE <<x>> \o s

RECURSIVE SortAscFrom(_, _, _)
SortAscFrom(pairs, k, acc) ==
    IF k > Len(pairs) THEN acc ELSE SortAscFrom(pairs, k + 1, InsertAsc(pairs[k], acc))

Reverse(s) == [k \in 1..Len(s) |-> s[Len(s) + 1 - k]]

\* a plausible slip: sort ascending and reverse, which turns ties around
SortAscReversed(pairs) == Reverse(SortAscFrom(pairs, 1, <<>>))

\* similarity_scores.sort(key=lambda x: x[1], reverse=True): list.sort is
\* stable, and stays stable under reverse=True
SortByScoreDesc(pairs) == SortFrom(pairs, 1, <<>>)

\* a plausible slip: the slice forgets its upper end
TopSliceUnbounded(sorted) == Slice(sorted, SliceFrom, Len(sorted))

\* similarity_scores[1:6]
TopSlice(sorted) == Slice(sorted, SliceFrom, SliceTo)

\* movie_data[movie_data['title'] == selected_movie].index: the positions
\* whose title equals the query (== on str: exact, case-sensitive)
TitleMatches(selected_movie, rows) ==
    {k \in 1..Len(rows) : rows[k].title = selected_movie}

SetMin(S) == CHOOSE x \in S : \A y \in S : x <= y

\* .index[0]: the first match (IndexError when there is none)
FirstMatch(selected_movie, rows) == SetMin(TitleMatches(selected_movie, rows))

\* the ranked <<position, score>> pairs the loop of line 158 walks
RankedPairs(selected_movie, rows, matrix) ==
    TopSlice(SortByScoreDesc(Enumerate(matrix[FirstMatch(selected_movie, rows)])))

\* one dict of `out`
RecDict(row, tmdb) ==
    LET d == FetchMovieDetails(tmdb[row.movie_id].details, tmdb[row.movie_id].videos)
    IN  [title |-> row.title, poster_url |-> d.poster_url, rating |-> d.rating,
         imdb_url |-> d.imdb_url, genres |-> d.genres, trailer_url |-> d.trailer_url]

\* generate_recommendations(selected_movie, movie_data, similarity_matrix):
\* raised is the IndexError of .index[0] on a title that matches nothing
GenerateRecommendations(selected_movie, rows, matrix, tmdb) ==
    IF TitleMatches(selected_movie, rows) = {}
    THEN [raised |-> TRUE, out |-> <<>>]
    ELSE LET top == RankedPairs(selected_movie, rows, matrix)
         IN  [raised |-> FALSE,
              out |-> [k \in 1..Len(top) |-> RecDict(rows[top[k][1]], tmdb)]]

(***************************************************************************)
(* The artifacts: what the two pickles can hold.                           *)
(***************************************************************************)
\* a DataFrame cell: None/NaN, a string, a parsed date, a number
NullCell == [kind |-> "null", text |-> <<>>, num |-> 0]
StrCell(t) == [kind |-> "str", text |-> t, num |-> 0]
DateCell(y) == [kind |-> "date", text |-> <<>>, num |-> y]
NumCell(n) == [kind |-> "num", text |-> <<>>, num |-> n]

Music == <<"M", "u", "s", "i", "c">>
Musical == <<"M", "u", "s", "i", "c", "a", "l">>
Drama == <<"D", "r", "a", "m", "a">>
DramaMusic == <<"D", "r", "a", "m", "a", " ", "|", " ", "M", "u", "s", "i", "c">>
Garbage == <<"n", "/", "a">>

\* the rows a movie_list.pkl is made of: under `genres`/`genre` the raw genre
\* cell, under `release_date` a date or something unparseable, under `year` a
\* number or something unparseable
MovieRows ==
    { [movie_id |-> 1, title |-> "Up", genres |-> StrCell(Music),
       release_date |-> DateCell(2001), year |-> NumCell(2001)],
      [movie_id |-> 2, title |-> "Heat", genres |-> StrCell(Musical),
       release_date |-> DateCell(2002), year |-> NumCell(2002)],
      [movie_id |-> 3, title |-> "Her", genres |-> StrCell(DramaMusic),
       release_date |-> StrCell(Garbage), year |-> StrCell(Garbage)],
      [movie_id |-> 4, title |-> "Up", genres |-> NullCell,
       release_date |-> DateCell(2001), year |-> NullCell] }

\* the column sets a movie_list.pkl comes with
ColumnSets ==
    { {"movie_id", "title", "genres", "release_date"},
      {"movie_id", "title", "genre", "year"},
      {"movie_id", "title"},
      {"movie_id", "genres", "release_date"} }

RowSeqs(n) == [1..n -> MovieRows]

\* a similarity.pkl of dimension m whose entries are all different, so that a
\* row or column taken from the wrong place shows
TaggedMatrix(m) == [i \in 1..m |-> [j \in 1..m |-> 10 * i + j]]

\* a similarity.pkl of dimension m as a cosine job leaves it: symmetric, the
\* diagonal at the top score, ties between entries at the same distance
DistanceMatrix(m) ==
    [i \in 1..m |-> [j \in 1..m |-> 100 - 10 * (IF i >= j THEN i - j ELSE j - i)]]

Matrices(m) == {TaggedMatrix(m), DistanceMatrix(m)}

EmptyFrame == [columns |-> {}, rows |-> <<>>]

(***************************************************************************)
(* Loading: ensure_local_file, _drive_download, load_similarity,           *)
(* load_movies_df.  env says what is on disk and what Drive does.          *)
(***************************************************************************)
ArtifactEnvs ==
    [ exists : BOOLEAN,
      file_id : {"", "1AbC"},
      gdown : BOOLEAN,
      download : {"written", "nothing", "raises"} ]

\* _drive_download: raises on an empty id, on a missing gdown, or when
\* gdown.download raises; gdown.download may also return having written nothing
DriveDownload(env) ==
    IF env.file_id = "" \/ ~env.gdown \/ env.download = "raises"
    THEN [raised |-> TRUE, present |-> FALSE]
    ELSE [raised |-> FALSE, present |-> env.download = "written"]

\* ensure_local_file
EnsureLocalFile(env) ==
    IF env.exists THEN [raised |-> FALSE, present |-> TRUE]
    ELSE IF env.file_id # "" THEN DriveDownload(env)
    ELSE [raised |-> TRUE, present |-> FALSE]

\* open(path, "rb") and pickle.load(f): content.ok is whether the bytes unpickle
OpenAndLoad(present, content) ==
    IF present /\ content.ok THEN [raised |-> FALSE, value |-> content.value]
    ELSE [raised |-> TRUE, value |-> <<>>]

\* load_similarity
LoadSimilarity(env, content) ==
    LET e == EnsureLocalFile(env)
    IN  IF e.raised THEN [raised |-> TRUE, value |-> <<>>]
        ELSE OpenAndLoad(e.present, content)

\* load_movies_df
LoadMoviesDf(env, content) ==
    IF env.exists THEN OpenAndLoad(TRUE, content)
    ELSE IF env.file_id # ""
         THEN LET e == EnsureLocalFile(env)
              IN  IF e.raised THEN [raised |-> TRUE, value |-> <<>>]
                  ELSE OpenAndLoad(e.present, content)
    ELSE [raised |-> TRUE, value |-> <<>>]

(***************************************************************************)
(* The filters (lines 215-258).                                            *)
(***************************************************************************)
\* next((c for c in ["genres", "genre"] if c in movie_data.columns), None)
GenreCol(columns) ==
    IF "genres" \in columns THEN "genres"
    ELSE IF "genre" \in columns THEN "genre"
    ELSE "None"

\* .fillna("").astype(str) of one cell
FillNaStr(cell) == IF cell.kind = "str" THEN cell.text ELSE <<>>

\* genre_series
GenreSeries(movie_data) ==
    IF GenreCol(movie_data.columns) # "None"
    THEN [k \in 1..Len(movie_data.rows) |-> FillNaStr(movie_data.rows[k].genres)]
    ELSE <<>>

\* all_genres (sorted(...) of a set: the order plays no part in the filter)
AllGenres(movie_data) ==
    LET gs == GenreSeries(movie_data)
    IN  UNION {LabelsOf(gs[k]) : k \in 1..Len(gs)}

\* a float of year_series: a year or NaN
Year(y) == [nan |-> FALSE, val |-> y]
NaN == [nan |-> TRUE, val |-> 0]

\* pd.to_datetime(cell, errors="coerce").dt.year
ToDatetimeYear(cell) == IF cell.kind = "date" THEN Year(cell.num) ELSE NaN

\* pd.to_numeric(cell, errors="coerce")
ToNumeric(cell) == IF cell.kind = "num" THEN Year(cell.num) ELSE NaN

\* year_series
YearSeries(movie_data) ==
    IF "release_date" \in movie_data.columns
    THEN [k \in 1..Len(movie_data.rows) |-> ToDatetimeYear(movie_data.rows[k].release_date)]
    ELSE IF "year" \in movie_data.columns
    THEN [k \in 1..Len(movie_data.rows) |-> ToNumeric(movie_data.rows[k].year)]
    ELSE <<>>

\* year_series.dropna()
KnownYears(ys) == {ys[k].val : k \in {j \in 1..Len(ys) : ~ys[j].nan}}

\* int(year_series.min()) if not year_series.dropna().empty else 0
YearMin(ys) ==
    IF KnownYears(ys) = {} THEN 0
    ELSE CHOOSE y \in KnownYears(ys) : \A z \in KnownYears(ys) : y <= z

\* int(year_series.max()) if not year_series.dropna().empty else 0
YearMax(ys) ==
    IF KnownYears(ys) = {} THEN 0
    ELSE CHOOSE y \in KnownYears(ys) : \A z \in KnownYears(ys) : y >= z

\* what st.slider can return: any lo <= hi within the bounds; without a slider
\* (year_min == year_max) the pair of bounds itself
YearRanges(ys) ==
    IF YearMin(ys) # YearMax(ys)
    THEN {r \in (YearMin(ys)..YearMax(ys)) \X (YearMin(ys)..YearMax(ys)) : r[1] <= r[2]}
    ELSE {<<YearMin(ys), YearMax(ys)>>}

\* the slider's default value (year_min, year_max)
FullYearRange(ys) == <<YearMin(ys), YearMax(ys)>>

\* Series.between(lo, hi): inclusive, False on NaN
Between(y, lo, hi) == ~y.nan /\ lo <= y.val /\ y.val <= hi

\* any(g in x for g in selected_genres)
GenreHit(x, selected_genres) == \E g \in selected_genres : InString(g, x)

\* mask (lines 248-253)
Mask(movie_data, selected_genres, year_range) ==
    LET gs == GenreSeries(movie_data)
        ys == YearSeries(movie_data)
    IN  [k \in 1..Len(movie_data.rows) |->
            /\ (selected_genres # {} /\ gs # <<>>) => GenreHit(gs[k], selected_genres)
            /\ (YearMin(ys) # YearMax(ys)) => Between(ys[k], year_range[1], year_range[2])]

\* np.flatnonzero(mask.to_numpy()): the positions of True, ascending
RECURSIVE FlatNonZeroFrom(_, _)
FlatNonZeroFrom(mask, k) ==
    IF k > Len(mask) THEN <<>>
    ELSE IF mask[k] THEN <<k>> \o FlatNonZeroFrom(mask, k + 1)
    ELSE FlatNonZeroFrom(mask, k + 1)

FlatNonZero(mask) == FlatNonZeroFrom(mask, 1)

\* movie_data.iloc[filtered_idx].reset_index(drop=True)
Iloc(movie_data, idx) ==
    [columns |-> movie_data.columns,
     rows |-> [k \in 1..Len(idx) |-> movie_data.rows[idx[k]]]]

\* numpy raises IndexError when a position lies outside the matrix
IxRaises(matrix, idx) == \E k \in 1..Len(idx) : idx[k] > Len(matrix)

\* a plausible slip: the rows are selected and the columns are cut by count
IxRowsOnly(matrix, idx) ==
    [i \in 1..Len(idx) |-> [j \in 1..Len(idx) |-> matrix[idx[i]][j]]]

\* similarity_matrix[np.ix_(filtered_idx, filtered_idx)]
Ix(matrix, idx) ==
    [i \in 1..Len(idx) |-> [j \in 1..Len(idx) |-> matrix[idx[i]][idx[j]]]]

\* titles (lines 260-264)
Titles(frame) ==
    IF "title" \in frame.columns
    THEN [k \in 1..Len(frame.rows) |-> frame.rows[k].title]
    ELSE <<>>

\* str.lower on the titles of the model
Lower(t) == CASE t = "Up" -> "up" [] t = "UP" -> "up" [] OTHER -> t

\* a plausible slip: the comparison forgets the case
InTitlesIgnoreCase(user_choice, titles) ==
    \E k \in 1..Len(titles) : Lower(titles[k]) = Lower(user_choice)

\* `user_choice not in titles`
InTitles(user_choice, titles) == \E k \in 1..Len(titles) : titles[k] = user_choice

(***************************************************************************)
(* What the page shows: st.error / st.warning texts.                       *)
(***************************************************************************)
NoMessage == [level |-> "none", text |-> ""]
SimilarityLoadError == [level |-> "error", text |-> "Failed to load similarity matrix"]
MovieListLoadError == [level |-> "error", text |-> "Failed to load movie list"]
NoMatchWarning == [level |-> "warning", text |-> "No movies match selected filters."]
NotFoundError == [level |-> "error", text |-> "Movie not found. Please check spelling."]

\* how TMDb answers for every movie id: all requests answered in full, or the
\* odd ids timing out and the even ids left without a videos answer
MovieIds == 1..Max(MaxCatalog, MaxMovies + 1)
FullDetails ==
    [status |-> "ok",
     data |-> [poster_path |-> "/p.jpg", imdb_id |-> "tt1", vote_average |-> "7.5",
               genres |-> <<"list", << [name |-> "Drama"] >> >>]]
FullVideos ==
    [status |-> "ok",
     results |-> <<"list", << [type |-> "Trailer", site |-> "YouTube", key |-> "k2"] >> >>]
TmdbUp == [id \in MovieIds |-> [details |-> FullDetails, videos |-> FullVideos]]
TmdbFlaky ==
    [id \in MovieIds |->
        IF id % 2 = 1
        THEN [details |-> [status |-> "timeout", data |-> <<>>], videos |-> FullVideos]
        ELSE [details |-> FullDetails,
              videos |-> [status |-> "http_error", results |-> <<"missing">>]]]
TmdbWorlds == {TmdbUp, TmdbFlaky}

(***************************************************************************)
(* The state of one run of the page.                                       *)
(***************************************************************************)
VARIABLES
    pc,                  \* where the script is
    similarity_matrix,   \* module global, line 197
    movie_data,          \* module global, line 203
    selected_genres,     \* st.multiselect, line 241
    year_range,          \* st.slider, lines 242-246
    filtered_idx,        \* line 255
    filtered_movies,     \* line 256
    filtered_similarity, \* line 258
    user_choice,         \* st.selectbox, line 269
    tmdb,                \* what TMDb answers to this run's requests
    recs,                \* line 275
    fetched,             \* what one call of fetch_movie_details returned
    message              \* the st.error / st.warning the run showed

vars == <<pc, similarity_matrix, movie_data, selected_genres, year_range,
          filtered_idx, filtered_movies, filtered_similarity, user_choice,
          tmdb, recs, fetched, message>>

NoChoice == ""
NoRange == <<0, 0>>

\* the state when the script reaches line 195: nothing loaded, nothing shown
Init ==
    /\ pc = "start"
    /\ similarity_matrix = <<>>
    /\ movie_data = EmptyFrame
    /\ selected_genres = {}
    /\ year_range = NoRange
    /\ filtered_idx = <<>>
    /\ filtered_movies = EmptyFrame
    /\ filtered_similarity = <<>>
    /\ user_choice = NoChoice
    /\ tmdb = TmdbUp
    /\ recs = <<>>
    /\ fetched = FetchDefaults
    /\ message = NoMessage

\* what similarity.pkl unpickles to, when it does
SimilarityContents ==
    {[ok |-> FALSE, value |-> <<>>]}
    \cup {[ok |-> TRUE, value |-> M] : M \in UNION {Matrices(m) : m \in 0..(MaxMovies + 1)}}

\* what movie_list.pkl unpickles to beside a matrix of dimension m: a catalog
\* as long as the matrix, one row shorter or one row longer
MovieListContents(m) ==
    {[ok |-> FALSE, value |-> EmptyFrame]}
    \cup {[ok |-> TRUE, value |-> [columns |-> c, rows |-> r]] :
            c \in ColumnSets,
            r \in UNION {RowSeqs(n) : n \in Max(0, m - 1)..Min(MaxMovies, m + 1)}}

\* lines 196-200
LoadSimilarityStep ==
    /\ pc = "start"
    /\ \E env \in ArtifactEnvs, content \in SimilarityContents :
          LET r == LoadSimilarity(env, content)
          IN  IF r.raised
              THEN /\ pc' = "stopped"
                   /\ message' = SimilarityLoadError
                   /\ UNCHANGED similarity_matrix
              ELSE /\ pc' = "sim_loaded"
                   /\ similarity_matrix' = r.value
                   /\ UNCHANGED message
    /\ UNCHANGED <<movie_data, selected_genres, year_range, filtered_idx,
                   filtered_movies, filtered_similarity, user_choice, tmdb, recs, fetched>>

\* lines 202-206
LoadMoviesStep ==
    /\ pc = "sim_loaded"
    /\ \E env \in ArtifactEnvs, content \in MovieListContents(Len(similarity_matrix)) :
          LET r == LoadMoviesDf(env, content)
          IN  IF r.raised
              THEN /\ pc' = "stopped"
                   /\ message' = MovieListLoadError
                   /\ UNCHANGED movie_data
              ELSE /\ pc' = "loaded"
                   /\ movie_data' = r.value
                   /\ UNCHANGED message
    /\ UNCHANGED <<similarity_matrix, selected_genres, year_range, filtered_idx,
                   filtered_movies, filtered_similarity, user_choice, tmdb, recs, fetched>>

\* lines 215-258: the two widgets are read and the filter is applied; the
\* IndexError of line 258 ends the run
ApplyFilters ==
    /\ pc = "loaded"
    /\ \E sel \in SUBSET AllGenres(movie_data), yr \in YearRanges(YearSeries(movie_data)) :
          LET idx == FlatNonZero(Mask(movie_data, sel, yr))
          IN  /\ selected_genres' = sel
              /\ year_range' = yr
              /\ filtered_idx' = idx
              /\ filtered_movies' = Iloc(movie_data, idx)
              /\ IF IxRaises(similarity_matrix, idx)
                 THEN /\ pc' = "crashed"
                      /\ UNCHANGED filtered_similarity
                 ELSE /\ pc' = "filtered"
                      /\ filtered_similarity' = Ix(similarity_matrix, idx)
    /\ UNCHANGED <<similarity_matrix, movie_data, user_choice, tmdb, recs, fetched, message>>

\* a plausible slip: the warning is shown and the script runs on
AfterTitlesNoStop(titles) == "ready"

\* lines 265-267: st.stop() on an empty title list
AfterTitles(titles) == IF Len(titles) = 0 THEN "stopped" ELSE "ready"

\* lines 260-267
CheckTitles ==
    /\ pc = "filtered"
    /\ pc' = AfterTitles(Titles(filtered_movies))
    /\ message' = IF Len(Titles(filtered_movies)) = 0 THEN NoMatchWarning ELSE message
    /\ UNCHANGED <<similarity_matrix, movie_data, selected_genres, year_range,
                   filtered_idx, filtered_movies, filtered_similarity, user_choice,
                   tmdb, recs, fetched>>

\* lines 271-275 for a pressed button: the not-found error, or the lookup
RecommendOutcome(choice, frame, matrix, world) ==
    IF ~InTitles(choice, Titles(frame))
    THEN [message |-> NotFoundError, called |-> FALSE, raised |-> FALSE, recs |-> <<>>]
    ELSE LET r == GenerateRecommendations(choice, frame.rows, matrix, world)
         IN  [message |-> NoMessage, called |-> TRUE, raised |-> r.raised, recs |-> r.out]

\* lines 271-275 run with `choice` in user_choice and TMDb answering as `world`
RecommendWith(choice, world) ==
    LET r == RecommendOutcome(choice, filtered_movies, filtered_similarity, world)
    IN  /\ user_choice' = choice
        /\ tmdb' = world
        /\ recs' = r.recs
        /\ message' = IF r.message = NoMessage THEN message ELSE r.message
        /\ pc' = IF r.raised THEN "crashed" ELSE "done"
        /\ UNCHANGED <<similarity_matrix, movie_data, selected_genres, year_range,
                       filtered_idx, filtered_movies, filtered_similarity, fetched>>

\* lines 269-275: st.selectbox hands back one of `titles`, the button is pressed
Recommend ==
    /\ pc = "ready"
    /\ \E k \in 1..Len(Titles(filtered_movies)), world \in TmdbWorlds :
          RecommendWith(Titles(filtered_movies)[k], world)

Next ==
    \/ LoadSimilarityStep
    \/ LoadMoviesStep
    \/ ApplyFilters
    \/ CheckTitles
    \/ Recommend

Spec == Init /\ [][Next]_vars

(***************************************************************************)
(* The recommendation step on its own: the button handler run on a catalog *)
(* and a matrix drawn from bounded sets, as an unfiltered page run hands   *)
(* them over.                                                              *)
(***************************************************************************)
TitleNames == <<"A", "B", "C", "D", "E", "F", "G", "H", "I", "J">>

\* the scores of a row: 0.0, 0.5, 1.0
Scores == {0, 50, 100}

\* a catalog of n movies with the titles A, B, C, ...
LetterRows(n) ==
    [k \in 1..n |-> [movie_id |-> k, title |-> TitleNames[k], genres |-> NullCell,
                     release_date |-> NullCell, year |-> NullCell]]

LetterFrame(n) == [columns |-> {"movie_id", "title"}, rows |-> LetterRows(n)]

\* the matrix whose row i is v turned left by i - 1 places: as v runs over all
\* vectors, so does every row, and no two rows need be alike
Circulant(v) ==
    [i \in 1..Len(v) |-> [j \in 1..Len(v) |-> v[((j - i) % Len(v)) + 1]]]

\* the row of the worked example: A's scores against A..F
ExampleRow == <<100, 90, 90, 10, 50, 5>>

InitRecWith(frame, matrix) ==
    /\ pc = "ready"
    /\ similarity_matrix = matrix
    /\ movie_data = frame
    /\ selected_genres = {}
    /\ year_range = NoRange
    /\ filtered_idx = [k \in 1..Len(frame.rows) |-> k]
    /\ filtered_movies = frame
    /\ filtered_similarity = matrix
    /\ user_choice = NoChoice
    /\ tmdb = TmdbUp
    /\ recs = <<>>
    /\ fetched = FetchDefaults
    /\ message = NoMessage

InitRec ==
    \/ \E n \in 1..MaxCatalog : \E v \in [1..n -> Scores] :
          InitRecWith(LetterFrame(n), Circulant(v))
    \/ InitRecWith(LetterFrame(Len(ExampleRow)), Circulant(ExampleRow))

SpecRec == InitRec /\ [][Recommend]_vars

(***************************************************************************)
(* The button handler against any query string.                            *)
(***************************************************************************)
QueryTitles == {"Up", "up", "UP", "Heat", "Her", "Jaws"}

InitTitle ==
    \E n \in 0..MaxMovies : \E r \in RowSeqs(n) : \E c \in ColumnSets :
        InitRecWith([columns |-> c, rows |-> r], TaggedMatrix(n))

\* lines 271-275 with any string in user_choice
PressRecommend ==
    /\ pc = "ready"
    /\ \E choice \in QueryTitles : RecommendWith(choice, TmdbUp)

SpecTitle == InitTitle /\ [][PressRecommend]_vars

(***************************************************************************)
(* One call of fetch_movie_details against any pair of answers.            *)
(***************************************************************************)
InitFetch ==
    /\ pc = "fetch"
    /\ similarity_matrix = <<>>
    /\ movie_data = EmptyFrame
    /\ selected_genres = {}
    /\ year_range = NoRange
    /\ filtered_idx = <<>>
    /\ filtered_movies = EmptyFrame
    /\ filtered_similarity = <<>>
    /\ user_choice = NoChoice
    /\ \E d \in DetailsResponses, v \in VideosResponses :
          tmdb = [id \in MovieIds |-> [details |-> d, videos |-> v]]
    /\ recs = <<>>
    /\ fetched = FetchDefaults
    /\ message = NoMessage

\* line 161
FetchStep ==
    /\ pc = "fetch"
    /\ \E id \in MovieIds :
          fetched' = FetchMovieDetails(tmdb[id].details, tmdb[id].videos)
    /\ pc' = "fetched"
    /\ UNCHANGED <<similarity_matrix, movie_data, selected_genres, year_range,
                   filtered_idx, filtered_movies, filtered_similarity, user_choice,
                   tmdb, recs, message>>

SpecFetch == InitFetch /\ [][FetchStep]_vars

(***************************************************************************)
(* The claims.                                                             *)
(***************************************************************************)
\* the filter of this run has produced filtered_movies and filtered_similarity
FilterDone ==
    \/ pc \in {"filtered", "ready", "done"}
    \/ pc = "stopped" /\ message = NoMatchWarning

\* the catalog position of the movie titled t (titles A, B, C, ... are distinct)
PosOf(t) == CHOOSE p \in 1..Len(filtered_movies.rows) : filtered_movies.rows[p].title = t

\* the score of the k-th recommendation in the query's row
RecScore(k) == filtered_similarity[PosOf(user_choice)][PosOf(recs[k].title)]

RecTitles == [k \in 1..Len(recs) |-> recs[k].title]

\* C1: the recommendations never contain the query movie itself, whatever
\* the place of its self-similarity in the ranking of its row.
C1_QueryNeverRecommended ==
    pc = "done" => \A k \in 1..Len(recs) : PosOf(recs[k].title) # PosOf(user_choice)

\* C2: the recommendations come in non-increasing score, two of equal score
\* in catalog order; for the row 1.0, 0.9, 0.9, 0.1, 0.5, 0.05 of A they are
\* B, C, E, D, F.
C2_SortedStable ==
    pc = "done" =>
        /\ \A a \in 1..Len(recs) : \A b \in 1..Len(recs) :
              a < b =>
                 /\ RecScore(a) >= RecScore(b)
                 /\ RecScore(a) = RecScore(b) => PosOf(recs[a].title) < PosOf(recs[b].title)
        /\ (filtered_similarity[1] = ExampleRow /\ user_choice = "A")
              => RecTitles = <<"B", "C", "E", "D", "F">>

\* C2's case: a lookup returned a tie and a strict descent (and the worked
\* example was looked up)
C2_Witness ==
    /\ pc = "done"
    /\ \E a \in 1..Len(recs) : \E b \in 1..Len(recs) :
          a < b /\ RecScore(a) = RecScore(b)
    /\ \E a \in 1..Len(recs) : \E b \in 1..Len(recs) :
          a < b /\ RecScore(a) > RecScore(b)

\* C3: with k = 5 the number of recommendations is min(5, n - 1) for a catalog
\* of n >= 1 movies.
C3_Count ==
    pc = "done" => Len(recs) = Min(TopK, Len(filtered_movies.rows) - 1)

\* C3's case: a catalog with more than five other movies gave exactly five
C3_Witness ==
    pc = "done" /\ Len(filtered_movies.rows) > TopK + 1 /\ Len(recs) = TopK

\* C4: the filtered matrix is the principal submatrix on the selected
\* positions and the filtered catalog holds the selected movies in their
\* original order.
C4_PrincipalSubmatrix ==
    FilterDone =>
        /\ Len(filtered_movies.rows) = Len(filtered_idx)
        /\ Len(filtered_similarity) = Len(filtered_idx)
        /\ \A i \in 1..Len(filtered_idx) :
              /\ filtered_movies.rows[i] = movie_data.rows[filtered_idx[i]]
              /\ Len(filtered_similarity[i]) = Len(filtered_idx)
              /\ \A j \in 1..Len(filtered_idx) :
                    /\ i < j => filtered_idx[i] < filtered_idx[j]
                    /\ filtered_similarity[i][j]
                          = similarity_matrix[filtered_idx[i]][filtered_idx[j]]

\* C4's case: the filter kept the first and the third of three movies
C4_Witness ==
    /\ pc = "filtered"
    /\ filtered_idx = <<1, 3>>
    /\ similarity_matrix = TaggedMatrix(3)

\* C5: no genre selected and the year range at its full extent give back the
\* catalog and the matrix unchanged, also when some release years are absent
\* and the others differ.
C5_DefaultFilterIsIdentity ==
    ( /\ FilterDone
      /\ Len(similarity_matrix) = Len(movie_data.rows)
      /\ selected_genres = {}
      /\ year_range = FullYearRange(YearSeries(movie_data)) )
    => /\ filtered_movies = movie_data
       /\ filtered_similarity = similarity_matrix

\* the selection predicate as specified: a selected label among the movie's
\* own labels, and a known year inside the range unless all years are equal
Selected(k) ==
    LET gs == GenreSeries(movie_data)
        ys == YearSeries(movie_data)
    IN  /\ \/ selected_genres = {}
           \/ gs # <<>> /\ LabelsOf(gs[k]) \cap selected_genres # {}
        /\ \/ YearMin(ys) = YearMax(ys)
           \/ Between(ys[k], year_range[1], year_range[2])

\* C6: the filter selects exactly the movies that carry one of the selected
\* labels (all movies when none is selected) and whose year is known and in
\* range (all years when year filtering is off); a label that is only a
\* substring of the raw genre string selects nothing.
C6_ExactLabelPredicate ==
    FilterDone =>
        \A k \in 1..Len(movie_data.rows) :
            (\E i \in 1..Len(filtered_idx) : filtered_idx[i] = k) <=> Selected(k)

\* the catalog handed to the recommendation step has an entry titled user_choice
HasTitle ==
    /\ "title" \in filtered_movies.columns
    /\ \E k \in 1..Len(filtered_movies.rows) : filtered_movies.rows[k].title = user_choice

\* C7: the not-found error is shown exactly when no entry of the catalog has
\* the query as its title (exact, case-sensitive); it is a message, not a crash.
C7_NotFoundExactly ==
    pc # "ready" =>
        /\ pc = "done"
        /\ (message = NotFoundError) <=> ~HasTitle
        /\ ~HasTitle => recs = <<>>

\* C7's case: "up" is asked for in a catalog that holds "Up"
C7_Witness ==
    /\ pc = "done"
    /\ user_choice = "up"
    /\ message = NotFoundError
    /\ \E k \in 1..Len(filtered_movies.rows) : filtered_movies.rows[k].title = "Up"

\* C8: a filter that selects no movie ends the run with the no-matches
\* warning: no title is chosen, no lookup is made, no error is shown.
C8_EmptyFilterStops ==
    ( /\ pc \in {"filtered", "ready", "done", "stopped", "crashed"}
      /\ message \notin {SimilarityLoadError, MovieListLoadError}
      /\ filtered_idx = <<>> )
    => /\ pc \in {"filtered", "stopped"}
       /\ pc = "stopped" => (message = NoMatchWarning /\ ~ENABLED Next)
       /\ pc = "filtered" => message = NoMessage
       /\ user_choice = NoChoice
       /\ recs = <<>>

\* C8's case: a catalog with movies in it, none of which passed the filter
C8_Witness ==
    /\ pc = "stopped"
    /\ message = NoMatchWarning
    /\ Len(movie_data.rows) > 0
    /\ filtered_idx = <<>>

\* what the call just made was answered
Answer == tmdb[CHOOSE id \in MovieIds : TRUE]

\* C9: fetch_movie_details returns for every pair of answers, and every field
\* whose own data arrived is kept while the others take their defaults.
C9_PerFieldRecovery ==
    pc = "fetched" =>
        LET d == Answer.details
            v == Answer.videos
            gotDetails == d.status = "ok"
        IN  /\ (gotDetails /\ d.data.poster_path # Absent)
                  => fetched.poster_url = PosterUrl(d.data.poster_path)
            /\ (gotDetails /\ d.data.vote_average # Absent)
                  => fetched.rating = d.data.vote_average
            /\ (gotDetails /\ d.data.genres[1] = "list")
                  => fetched.genres = GenreNames(d.data.genres[2])
            /\ (v.status = "ok" /\ v.results[1] = "list")
                  => fetched.trailer_url = FirstTrailer(v.results[2])

\* C10: a similarity matrix whose dimension is not the catalog's length makes
\* loading fail: the run stops with a load error and filters nothing.
C10_MismatchIsFatal ==
    ( /\ pc \notin {"start", "sim_loaded"}
      /\ message # SimilarityLoadError
      /\ message # MovieListLoadError )
    => Len(similarity_matrix) = Len(movie_data.rows)

=============================================================================
